---- MODULE Spec2Model ----
(***************************************************************************)
(* sshpass (trunk/main.c): the streaming prompt matcher, the password      *)
(* copy loop, option parsing and the pty supervisor / event loop.          *)
(*                                                                         *)
(* C strings are modelled as sequences of one-character strings without    *)
(* the terminating NUL: reference[state]=='\0' in C is state=Len(reference)*)
(* here, and the C index i is the TLA+ index i+1.                          *)
(***************************************************************************)
EXTENDS Integers, Sequences, FiniteSets, TLC

VARIABLES
    \* ---- match() exercised on its own (SpecMatch) ----
    mref,       \* the phrase handed to match as `reference`
    mstart,     \* the state the first call started from
    mstate,     \* the state returned by the last call
    mfed,       \* concatenation of all chunks fed so far
    mlast,      \* the last chunk fed
    mprev,      \* the state before the last call
    \* ---- write_pass_fd() exercised on its own (SpecPass) ----
    ppc,        \* position in write_pass_fd: "idle", "read", "done"
    psrc,       \* bytes the source descriptor will deliver
    ppos,       \* bytes of psrc already consumed by read()
    pout,       \* bytes handed to reliable_write on dstfd, in order
    \* ---- the program: main, parse_options, runprogram (Spec) ----
    pc,         \* controller position: "getopt", "openpt", "grantpt", "unlockpt",
                \* "fork", "pselect", "wait", "exit" ("idle": not running); and,
                \* where an iteration is taken step by step, "handle", "write", "poll"
    sshpassEnv, \* getenv("SSHPASS"): NULL or Ptr(value)
    nsrc,       \* history: password-source options the switch has processed
    error,      \* parse_options: error
    pwtype,     \* args.pwtype
    pwprompt,   \* args.pwprompt: NULL or Ptr(the -P argument)
    password,   \* args.orig_password / args.pwsrc.password: NULL or Ptr(bytes)
    exitcode,   \* what main returned (or exit() was given): -1 until then
    masterpt,   \* the pty master descriptor: "none", "open", "closed"
    slavept,    \* the parent's slave descriptor: "none", "open", "closed"
    nclose,     \* history: close() calls per descriptor
    childpid,   \* 0 before fork, -1 when fork failed, 1 for the child
    forked,     \* history: fork() was called
    looped,     \* history: the do-while loop was entered
    rfail,      \* history: the call of runprogram that failed: "none", "openpt",
                \* "grantpt", "unlockpt", "fork"
    child,      \* the child: "none", "setup", "exec", "running", "dead"
    cfail,      \* history: why the child gave up: "none", "ctty", "exec"
    cstatus,    \* the child's wait status: <<"none", 0>>, <<"exited", n>>, <<"signaled", n>>
    reaped,     \* waitpid has collected cstatus
    sigchld,    \* SIGCHLD is pending for the controller
    script,     \* index in Scripts of what the target prints, 0 before exec
    wfrag,      \* fragments of the script the target has written to its tty
    rpos,       \* bytes of the target's output the controller has read
    state1,     \* handleoutput: static state1 (password prompt)
    state2,     \* handleoutput: static state2 (host key unknown)
    state3,     \* handleoutput: static state3 (host key changed)
    prevmatch,  \* handleoutput: static prevmatch
    terminate,  \* runprogram: terminate
    status,     \* runprogram: status, as <<"exited", n>> or <<"signaled", n>>
    wait_id,    \* runprogram: wait_id
    ptyin,      \* bytes written to the pty master, in order
    npass,      \* history: calls of write_pass
    ncomplete,  \* history: reads after which the prompt phrase was complete
    sigmask,    \* the controller's signal mask (blocked signals)
    sigpend,    \* signals pending for the controller, SIGCHLD aside (see sigchld)
    term,       \* the global term
    kills,      \* history: <<pid, signal>> of every kill() call, in order
    hruns,      \* history: <<signal, where>> of every handler execution, in order
    owed,       \* history: SIGHUP/SIGTERM that arrived while the child was alive
                \* and whose handler has not run yet
    nsig,       \* history: signals the environment has sent
    staleop,    \* history: an ioctl or write was issued on masterpt after its close
    lret,       \* runprogram: ret, the value handleoutput returned in this iteration
    wq,         \* write_pass: the reliable_write calls still to make, in order
    pwcalls,    \* history: <<data, result>> of every write() made for write_pass
    \* ---- match() on the phrases handleoutput tracks (SpecExact) ----
    xref,       \* the tracked phrase handed to match as `reference`
    xstate,     \* the state returned by the last call of match
    xtrue,      \* length of the longest prefix of xref the stream ends with
    xpos,       \* bytes fed so far
    xfirst,     \* xpos at the end of the first occurrence of xref, 0 before it
    xdone,      \* xpos when match first returned the complete state, 0 before it
    \* ---- handleoutput() exercised on its own (SpecHandle) ----
    hbuf,       \* buffer[0..numread-1] of the last call
    hpre,       \* the statics before the last call
    hret,       \* what the last call returned
    hnum,       \* what read() returned in the last call
    \* ---- handleoutput() over one stream cut into reads (SpecChunk) ----
    hstream,    \* the bytes the child writes in the run
    hpos,       \* how many of them the reads have returned so far
    \* ---- the earlier program, src/sshpass/main.c (SpecLegacy) ----
    legpc,      \* where its runprogram is: "idle", "fork", "select", "handle",
                \* "waitpid", "done"
    legpid,     \* runprogram: childpid
    legchild,   \* its child: "none", "running", "dead"
    legcstatus, \* the wait status the kernel holds for the dead child
    legreaped,  \* history: waitpid has collected the child
    legstatus,  \* runprogram: status
    legfrag,    \* pieces of LegacyScript the child has written
    legrpos,    \* bytes of them handleoutput has read
    legstate,   \* handleoutput: static state
    legptyin    \* bytes written to the pty master

matchVars == <<mref, mstart, mstate, mfed, mlast, mprev>>
passVars == <<ppc, psrc, ppos, pout>>
exactVars == <<xref, xstate, xtrue, xpos, xfirst, xdone>>
handleVars == <<hbuf, hpre, hret, hnum, hstream, hpos>>
legacyVars == <<legpc, legpid, legchild, legcstatus, legreaped, legstatus, legfrag,
                legrpos, legstate, legptyin>>
optVars == <<sshpassEnv, nsrc, error, pwtype, pwprompt, password>>
fdVars == <<masterpt, slavept, nclose>>
childVars == <<child, cfail, cstatus, sigchld, script, wfrag>>
autoVars == <<state1, state2, state3, prevmatch, ptyin, npass, ncomplete, rpos>>
loopVars == <<terminate, status, wait_id, reaped, looped>>
sigVars == <<sigmask, sigpend, term, kills, hruns, owed, nsig, staleop>>
stepVars == <<lret, wq, pwcalls>>
progVars == <<pc, exitcode, childpid, forked, rfail, optVars, fdVars, childVars, autoVars,
              loopVars, sigVars, stepVars>>
\* what an action of the program leaves alone
sideVars == <<matchVars, passVars, exactVars, handleVars, legacyVars>>
vars == <<matchVars, passVars, exactVars, handleVars, legacyVars, progVars>>

-----------------------------------------------------------------------------
(* Bounds of the model *)

MaxPhraseLen == 3
MaxFed == 5
MaxSrcLen == 3
MaxStream == 72
MaxSignals == 1

-----------------------------------------------------------------------------
(* match: main.c 468-483 *)

\* The bug of a matcher that keeps its progress on a mismatch (no reset).
RECURSIVE matchNoReset(_, _, _, _, _)
matchNoReset(reference, buffer, bufsize, state, i) ==
    IF state # Len(reference) /\ i < bufsize
    THEN IF reference[state + 1] = buffer[i + 1]
         THEN matchNoReset(reference, buffer, bufsize, state + 1, i + 1)
         ELSE matchNoReset(reference, buffer, bufsize, state, i + 1)
    ELSE state

\* The for loop of match from loop index i on.
RECURSIVE matchLoop(_, _, _, _, _)
matchLoop(reference, buffer, bufsize, state, i) ==
    IF state # Len(reference) /\ i < bufsize
    THEN IF reference[state + 1] = buffer[i + 1]
         THEN matchLoop(reference, buffer, bufsize, state + 1, i + 1)
         ELSE IF reference[1] = buffer[i + 1]
              THEN matchLoop(reference, buffer, bufsize, 1, i + 1)
              ELSE matchLoop(reference, buffer, bufsize, 0, i + 1)
    ELSE state

\* The bug of a matcher that does not stop at the terminating byte of the
\* reference: it counts the bytes that follow a complete phrase as well.
RECURSIVE matchRunsOnLoop(_, _, _, _, _)
matchRunsOnLoop(reference, buffer, bufsize, state, i) ==
    IF i < bufsize
    THEN IF state >= Len(reference)
         THEN matchRunsOnLoop(reference, buffer, bufsize, state + 1, i + 1)
         ELSE IF reference[state + 1] = buffer[i + 1]
              THEN matchRunsOnLoop(reference, buffer, bufsize, state + 1, i + 1)
              ELSE IF reference[1] = buffer[i + 1]
                   THEN matchRunsOnLoop(reference, buffer, bufsize, 1, i + 1)
                   ELSE matchRunsOnLoop(reference, buffer, bufsize, 0, i + 1)
    ELSE state

matchRunsOn(reference, buffer, bufsize, state) ==
    matchRunsOnLoop(reference, buffer, bufsize, state, 0)

\* The bug of a matcher whose progress does not survive the call.
matchForgets(reference, buffer, bufsize, state) ==
    matchLoop(reference, buffer, bufsize, 0, 0)

match(reference, buffer, bufsize, state) ==
    matchLoop(reference, buffer, bufsize, state, 0)

\* Substring containment, stated without the matcher.
Contains(stream, phrase) ==
    \E k \in 0..(Len(stream) - Len(phrase)) :
        \A j \in 1..Len(phrase) : stream[k + j] = phrase[j]

-----------------------------------------------------------------------------
(* write_pass_fd: main.c 514-533 *)

\* sizeof(buffer) of write_pass_fd
PassBufLen == 40

Min(a, b) == IF a < b THEN a ELSE b

\* A C string pointer: NULL, or Ptr(the bytes it points to).
NULL == <<>>

Ptr(bytes) == <<bytes>>

Deref(p) == p[1]

\* The bug of a copy loop that passes the newline on before it stops.
RECURSIVE CopyChunkKeepsNewline(_, _, _, _, _)
CopyChunkKeepsNewline(buffer, numread, done, out, i) ==
    IF i < numread /\ ~done
    THEN IF buffer[i + 1] # "\n"
         THEN CopyChunkKeepsNewline(buffer, numread, done, Append(out, buffer[i + 1]), i + 1)
         ELSE CopyChunkKeepsNewline(buffer, numread, TRUE, Append(out, buffer[i + 1]), i + 1)
    ELSE <<done, out>>

\* The for loop over one buffer: <<done, bytes written so far>>.
RECURSIVE CopyChunk(_, _, _, _, _)
CopyChunk(buffer, numread, done, out, i) ==
    IF i < numread /\ ~done
    THEN IF buffer[i + 1] # "\n"
         THEN CopyChunk(buffer, numread, done, Append(out, buffer[i + 1]), i + 1)
         ELSE CopyChunk(buffer, numread, TRUE, out, i + 1)
    ELSE <<done, out>>

\* One iteration of while( !done ): read() returned numread bytes at offset pos.
PassIter(src, pos, numread, out) ==
    CopyChunk(SubSeq(src, pos + 1, pos + numread), numread, numread < 1, out, 0)

\* The whole of write_pass_fd on a source whose reads fill the buffer:
\* the bytes handed to reliable_write, the final newline included.
RECURSIVE PassLoop(_, _, _)
PassLoop(src, pos, out) ==
    LET numread == Min(PassBufLen, Len(src) - pos)
        r == PassIter(src, pos, numread, out)
    IN IF r[1] THEN Append(r[2], "\n") ELSE PassLoop(src, pos + numread, r[2])

write_pass_fd(src) == PassLoop(src, 0, <<>>)

-----------------------------------------------------------------------------
(* The program's constants: main.c 44-53, 406-408, 412 *)

RETURN_NOERROR == 0
RETURN_INVALID_ARGUMENTS == 1
RETURN_CONFLICTING_ARGUMENTS == 2
RETURN_RUNTIME_ERROR == 3
RETURN_PARSE_ERRROR == 4
RETURN_INCORRECT_PASSWORD == 5
RETURN_HOST_KEY_UNKNOWN == 6
RETURN_HOST_KEY_CHANGED == 7

\* The build's default prompt (config.h, outside the sources at hand).
PASSWORD_PROMPT ==
    <<"a", "s", "s", "w", "o", "r", "d">>

compare2 ==
    <<"T", "h", "e", " ", "a", "u", "t", "h", "e", "n", "t", "i", "c", "i",
      "t", "y", " ", "o", "f", " ", "h", "o", "s", "t", " ">>

compare3 ==
    <<"d", "i", "f", "f", "e", "r", "s", " ", "f", "r", "o", "m", " ", "t",
      "h", "e", " ", "k", "e", "y", " ", "f", "o", "r", " ", "t", "h", "e",
      " ", "I", "P", " ", "a", "d", "d", "r", "e", "s", "s">>

\* sizeof(buffer) of handleoutput
HandleBufLen == 256

-----------------------------------------------------------------------------
(* handleoutput: main.c 400-466 *)

\* compare1 after "if( args.pwprompt ) compare1 = args.pwprompt"
compare1_of(prompt) == IF prompt # NULL THEN Deref(prompt) ELSE PASSWORD_PROMPT

\* The body of handleoutput on a read of numread bytes: the new statics,
\* the return value and whether write_pass was called.
handleoutputBody(cmp1, buffer, numread, s1, s2, s3, prev) ==
    LET m1 == match(cmp1, buffer, numread, s1)
        hit1 == m1 = Len(cmp1)
        send == hit1 /\ prev = 0
        ret1 == IF hit1 /\ prev # 0 THEN RETURN_INCORRECT_PASSWORD ELSE 0
        m2 == IF ret1 = 0 THEN match(compare2, buffer, numread, s2) ELSE s2
        hit2 == ret1 = 0 /\ m2 = Len(compare2)
        m3 == IF ret1 = 0 /\ ~hit2 THEN match(compare3, buffer, numread, s3) ELSE s3
        hit3 == ret1 = 0 /\ ~hit2 /\ m3 = Len(compare3)
    IN [state1 |-> IF send THEN 0 ELSE m1,
        state2 |-> m2,
        state3 |-> m3,
        prevmatch |-> IF send THEN 1 ELSE prev,
        complete |-> hit1,
        wrote |-> send,
        ret |-> IF ret1 # 0 THEN ret1
                ELSE IF hit2 THEN RETURN_HOST_KEY_UNKNOWN
                ELSE IF hit3 THEN RETURN_HOST_KEY_CHANGED
                ELSE 0]

\* The bug of a handler that never records that it has replied.
handleoutputNoPrevmatch(cmp1, buffer, numread, s1, s2, s3, prev) ==
    [handleoutputBody(cmp1, buffer, numread, s1, s2, s3, prev) EXCEPT !.prevmatch = prev]

\* The bug of a handler that replies as soon as the prompt has begun to match.
handleoutputEager(cmp1, buffer, numread, s1, s2, s3, prev) ==
    LET r == handleoutputBody(cmp1, buffer, numread, s1, s2, s3, prev)
    IN IF r.state1 > 0 /\ prev = 0 /\ r.ret = 0
       THEN [r EXCEPT !.state1 = 0, !.prevmatch = 1, !.wrote = TRUE]
       ELSE r

\* The bug of a handler that runs all three matchers on every read.
handleoutputAllPhrases(cmp1, buffer, numread, s1, s2, s3, prev) ==
    [handleoutputBody(cmp1, buffer, numread, s1, s2, s3, prev)
        EXCEPT !.state2 = match(compare2, buffer, numread, s2),
               !.state3 = match(compare3, buffer, numread, s3)]

handleoutput(cmp1, buffer, numread, s1, s2, s3, prev) ==
    handleoutputBody(cmp1, buffer, numread, s1, s2, s3, prev)

-----------------------------------------------------------------------------
(* write_pass: main.c 487-512 *)

\* The bytes write_pass hands to reliable_write: data is what the source
\* descriptor delivers, opens whether open() of the password file succeeds.
write_pass(type, pass, data, opens) ==
    CASE type = "PWT_STDIN" -> write_pass_fd(data)
      [] type = "PWT_FD" -> write_pass_fd(data)
      [] type = "PWT_FILE" -> IF opens THEN write_pass_fd(data) ELSE <<>>
      [] type = "PWT_PASS" -> Append(Deref(pass), "\n")

-----------------------------------------------------------------------------
(* runprogram's decisions: main.c 229-246, 343-347, 390-397 *)

WIFEXITED(st) == st[1] = "exited"

WIFSIGNALED(st) == st[1] = "signaled"

WEXITSTATUS(st) == st[2]

\* The bug of a supervisor that goes on without checking the call.
Unchecked(rc) == FALSE

\* if( masterpt==-1 ) return RETURN_RUNTIME_ERROR
openpt_failed(rc) == rc = -1

\* if( grantpt( masterpt )!=0 ) return RETURN_RUNTIME_ERROR
grantpt_failed(rc) == rc # 0

\* if( unlockpt( masterpt )!=0 ) return RETURN_RUNTIME_ERROR
unlockpt_failed(rc) == rc # 0

\* else if( childpid<0 ) return RETURN_RUNTIME_ERROR
fork_failed(pid) == pid < 0

\* The bug of the original approach, which closed the slave end right away
\* (comment no. 3.14159).
parent_slave_closed_at_once == "closed"

\* slavept=open(name, O_RDWR|O_NOCTTY ) of the parent, kept open, line 350
parent_slave == "open"

\* The bug of the older child, which left with errno (0 when it is unset).
child_exit_errno == <<"exited", 0>>

\* exit(RETURN_RUNTIME_ERROR) of the child, lines 321 and 342
child_exit_failure == <<"exited", RETURN_RUNTIME_ERROR>>

\* The bug of a return that looks at the child's status first.
runprogram_return_status_first(tm, st) ==
    IF WIFEXITED(st) THEN WEXITSTATUS(st)
    ELSE IF tm > 0 THEN tm
    ELSE 255

\* what runprogram returns after the loop, lines 392-397
runprogram_return(tm, st) ==
    IF tm > 0 THEN tm
    ELSE IF WIFEXITED(st) THEN WEXITSTATUS(st)
    ELSE 255

\* The bug of a loop that also ends once a handler has set term.
loop_again_unless_term(wid, st) ==
    (wid = 0 \/ (~WIFEXITED(st) /\ ~WIFSIGNALED(st))) /\ term = 0

\* the do-while condition, line 390
loop_again(wid, st) == wid = 0 \/ (~WIFEXITED(st) /\ ~WIFSIGNALED(st))

-----------------------------------------------------------------------------
(* Signals: main.c 284-302, 535-577 *)

\* The bug of a mask that leaves SIGCHLD unblocked outside pselect.
sigmask_without_sigchld == {"SIGHUP", "SIGTERM", "SIGINT", "SIGTSTP"}

\* The bug of a mask that leaves the interrupt signal unblocked.
sigmask_without_sigint == {"SIGCHLD", "SIGHUP", "SIGTERM", "SIGTSTP"}

\* sigmask after the sigaddset calls, lines 290-295
sigmask_run == {"SIGCHLD", "SIGHUP", "SIGTERM", "SIGINT", "SIGTSTP"}

\* sigmask_select after sigemptyset, line 287
sigmask_select == {}

\* The signals given term_handler, lines 299-302
TermSignals == {"SIGHUP", "SIGTERM", "SIGINT", "SIGTSTP"}

\* The bytes "\x03" and "\x1a"
ETX == "^C"

SUB == "^Z"

\* The bug of a write that is repeated until every byte is out.
reliable_write_retries(data, result) == data

\* reliable_write: the bytes of data the one write() call put on fd, given
\* the result of that call; a short or failed write is only reported.
reliable_write(data, result) ==
    IF result > 0 THEN SubSeq(data, 1, Min(result, Len(data))) ELSE <<>>

\* The bug of a handler that signals the child on every signal.
term_handler_always_kills(signum, pid) ==
    [wrote |-> CASE signum = "SIGINT" -> <<ETX>>
                 [] signum = "SIGTSTP" -> <<SUB>>
                 [] OTHER -> <<>>,
     killed |-> IF pid > 0 THEN << <<pid, signum>> >> ELSE <<>>,
     term |-> 1]

\* term_handler with childpid = pid: what it hands to reliable_write on
\* masterpt, the kill() calls it makes, and the value it leaves in term.
term_handler(signum, pid) ==
    [wrote |-> CASE signum = "SIGINT" -> <<ETX>>
                 [] signum = "SIGTSTP" -> <<SUB>>
                 [] OTHER -> <<>>,
     killed |-> IF signum \notin {"SIGINT", "SIGTSTP"} /\ pid > 0
                THEN << <<pid, signum>> >> ELSE <<>>,
     term |-> 1]

\* One handler execution at position `where`, on the state in acc.
\* SIGCHLD has sigchld_handler, which does nothing; SIGWINCH has
\* window_resize_handler, which issues an ioctl on masterpt.
RunHandler(signum, where, acc) ==
    LET h == term_handler(signum, childpid)
        logged == [acc EXCEPT !.hruns = Append(acc.hruns, <<signum, where>>)]
    IN CASE signum = "SIGCHLD" -> logged
         [] signum = "SIGWINCH" ->
              [logged EXCEPT !.staleop = acc.staleop \/ masterpt # "open"]
         [] OTHER ->
              [logged EXCEPT !.ptyin = IF masterpt = "open"
                                       THEN acc.ptyin \o reliable_write(h.wrote, Len(h.wrote))
                                       ELSE acc.ptyin,
                             !.staleop = acc.staleop \/ (h.wrote # <<>> /\ masterpt # "open"),
                             !.kills = acc.kills \o h.killed,
                             !.term = h.term]

\* The handlers of the signals in order, one after the other.
RECURSIVE RunHandlers(_, _, _, _)
RunHandlers(order, i, where, acc) ==
    IF i > Len(order) THEN acc
    ELSE RunHandlers(order, i + 1, where, RunHandler(order[i], where, acc))

\* The orders in which the kernel may run the handlers of a set of signals.
Orders(S) ==
    { o \in [1..Cardinality(S) -> S] :
        \A i, j \in 1..Cardinality(S) : i # j => o[i] # o[j] }

\* The reliable_write calls of write_pass, one element per call.
write_calls(type, pass, data, opens) ==
    IF type = "PWT_PASS"
    THEN << Deref(pass), <<"\n">> >>
    ELSE LET bytes == write_pass(type, pass, data, opens)
         IN [i \in 1..Len(bytes) |-> <<bytes[i]>>]

-----------------------------------------------------------------------------
(* SpecMatch: match driven by arbitrary phrases, start states and chunks *)

Alphabet == {"a", "b"}

SeqsUpTo(S, n) == UNION { [1..k -> S] : k \in 0..n }

Phrases == SeqsUpTo(Alphabet, MaxPhraseLen)

Chunks == SeqsUpTo(Alphabet, 2)

ProgIdle ==
    /\ pc = "idle"
    /\ sshpassEnv = NULL
    /\ nsrc = 0
    /\ error = -1
    /\ pwtype = "PWT_STDIN"
    /\ pwprompt = NULL
    /\ password = NULL
    /\ exitcode = -1
    /\ masterpt = "none"
    /\ slavept = "none"
    /\ nclose = [master |-> 0, slave |-> 0]
    /\ childpid = 0
    /\ forked = FALSE
    /\ looped = FALSE
    /\ rfail = "none"
    /\ child = "none"
    /\ cfail = "none"
    /\ cstatus = <<"none", 0>>
    /\ reaped = FALSE
    /\ sigchld = FALSE
    /\ script = 0
    /\ wfrag = 0
    /\ rpos = 0
    /\ state1 = 0
    /\ state2 = 0
    /\ state3 = 0
    /\ prevmatch = 0
    /\ terminate = 0
    /\ status = <<"exited", 0>>
    /\ wait_id = 0
    /\ ptyin = <<>>
    /\ npass = 0
    /\ ncomplete = 0
    /\ sigmask = {}
    /\ sigpend = {}
    /\ term = 0
    /\ kills = <<>>
    /\ hruns = <<>>
    /\ owed = {}
    /\ nsig = 0
    /\ staleop = FALSE
    /\ lret = 0
    /\ wq = <<>>
    /\ pwcalls = <<>>

PassIdle ==
    /\ ppc = "idle"
    /\ psrc = <<>>
    /\ ppos = 0
    /\ pout = <<>>

ExactIdle ==
    /\ xref = <<>>
    /\ xstate = 0
    /\ xtrue = 0
    /\ xpos = 0
    /\ xfirst = 0
    /\ xdone = 0

LegacyIdle ==
    /\ legpc = "idle"
    /\ legpid = 0
    /\ legchild = "none"
    /\ legcstatus = <<"none", 0>>
    /\ legreaped = FALSE
    /\ legstatus = <<"exited", 0>>
    /\ legfrag = 0
    /\ legrpos = 0
    /\ legstate = 0
    /\ legptyin = <<>>

HandleIdle ==
    /\ hbuf = <<>>
    /\ hpre = [state1 |-> 0, state2 |-> 0, state3 |-> 0, prevmatch |-> 0]
    /\ hret = 0
    /\ hnum = 0
    /\ hstream = <<>>
    /\ hpos = 0

MatchInit ==
    /\ mref \in Phrases
    /\ mstart \in 0..Len(mref)
    /\ mstate = mstart
    /\ mprev = mstart
    /\ mfed = <<>>
    /\ mlast = <<>>
    /\ PassIdle
    /\ ExactIdle
    /\ LegacyIdle
    /\ HandleIdle
    /\ ProgIdle

\* One call state=match(reference, buffer, numread, state) on the next chunk.
MatchFeed ==
    \E chunk \in Chunks :
        /\ Len(mfed) + Len(chunk) <= MaxFed
        /\ mprev' = mstate
        /\ mstate' = match(mref, chunk, Len(chunk), mstate)
        /\ mfed' = mfed \o chunk
        /\ mlast' = chunk
        /\ UNCHANGED <<mref, mstart>>
        /\ UNCHANGED <<passVars, exactVars, handleVars, legacyVars, progVars>>

\* A call with a byte count that is not positive (end of file, failed read).
MatchFeedNone ==
    \E n \in {-1, 0} :
        /\ mprev' = mstate
        /\ mstate' = match(mref, <<>>, n, mstate)
        /\ mlast' = <<>>
        /\ UNCHANGED <<mref, mstart, mfed>>
        /\ UNCHANGED <<passVars, exactVars, handleVars, legacyVars, progVars>>

MatchNext == MatchFeed \/ MatchFeedNone

SpecMatch == MatchInit /\ [][MatchNext]_vars

\* C9: match is invariant under chunking: feeding the chunks one call after
\* the other, from any start state, returns the state that one call on the
\* concatenation returns (match(ref, b, match(ref, a, s)) = match(ref, a ++ b, s)).
C9_ChunkInvariant ==
    mstate = match(mref, mfed, Len(mfed), mstart)

\* C9 witness: a phrase split across two calls has completed.
C9_Witness ==
    /\ Len(mref) = MaxPhraseLen
    /\ mstart = 0
    /\ Len(mlast) > 0
    /\ Len(mfed) > Len(mlast)
    /\ mprev > 0
    /\ mprev < Len(mref)
    /\ mstate = Len(mref)

\* C10: from state 0, as long as the bytes fed do not contain the non-empty
\* phrase, the state stays strictly below the phrase length.
C10_NoFalsePositive ==
    (mstart = 0 /\ Len(mref) > 0 /\ ~Contains(mfed, mref))
        => mstate < Len(mref)

\* C10 witness: a stream that goes through a restart and never holds the phrase.
C10_Witness ==
    /\ mstart = 0
    /\ Len(mref) = MaxPhraseLen
    /\ Len(mfed) = MaxFed
    /\ ~Contains(mfed, mref)
    /\ mstate > 0
    /\ mstate < Len(mref)

-----------------------------------------------------------------------------
(* SpecPass: write_pass_fd driven read by read, short reads included *)

PassAlphabet == {"s", "t", "\n"}

Pad(n) == [i \in 1..n |-> "x"]

\* Sources: short ones, and ones whose first line ends around the buffer size.
PassSources ==
    { Pad(n) \o t : n \in {0, PassBufLen - 1, PassBufLen},
                    t \in SeqsUpTo(PassAlphabet, MaxSrcLen) }

MatchIdle ==
    /\ mref = <<>>
    /\ mstart = 0
    /\ mstate = 0
    /\ mprev = 0
    /\ mfed = <<>>
    /\ mlast = <<>>

PassInit ==
    /\ ppc = "read"
    /\ psrc \in PassSources
    /\ ppos = 0
    /\ pout = <<>>
    /\ MatchIdle
    /\ ExactIdle
    /\ LegacyIdle
    /\ HandleIdle
    /\ ProgIdle

\* One iteration of the loop on a read that returned data; the final
\* reliable_write of the newline follows when the iteration set done.
PassRead ==
    /\ ppc = "read"
    /\ ppos < Len(psrc)
    /\ \E numread \in 1..Min(PassBufLen, Len(psrc) - ppos) :
         LET r == PassIter(psrc, ppos, numread, pout)
         IN /\ ppos' = ppos + numread
            /\ pout' = IF r[1] THEN Append(r[2], "\n") ELSE r[2]
            /\ ppc' = IF r[1] THEN "done" ELSE "read"
    /\ UNCHANGED psrc
    /\ UNCHANGED <<matchVars, exactVars, handleVars, legacyVars, progVars>>

\* The iteration whose read returns 0 (end of input) or -1 (error).
PassReadEnd ==
    /\ ppc = "read"
    /\ ppos = Len(psrc)
    /\ \E numread \in {-1, 0} :
         LET r == PassIter(psrc, ppos, numread, pout)
         IN /\ pout' = IF r[1] THEN Append(r[2], "\n") ELSE r[2]
            /\ ppc' = IF r[1] THEN "done" ELSE "read"
    /\ UNCHANGED <<psrc, ppos>>
    /\ UNCHANGED <<matchVars, exactVars, handleVars, legacyVars, progVars>>

PassNext == PassRead \/ PassReadEnd

SpecPass == PassInit /\ [][PassNext]_vars

\* Index of the first newline of s, Len(s)+1 when it has none.
FirstNewline(s) ==
    IF \E i \in 1..Len(s) : s[i] = "\n"
    THEN CHOOSE i \in 1..Len(s) : s[i] = "\n" /\ \A j \in 1..(i - 1) : s[j] # "\n"
    ELSE Len(s) + 1

FirstLine(s) == SubSeq(s, 1, FirstNewline(s) - 1)

\* C8: write_pass_fd writes the source bytes before the first newline (all of
\* them when there is none), in order, then exactly one newline; while it
\* runs, what it has written is a prefix of that.
C8_FirstLineThenNewline ==
    /\ ppc = "done" => pout = Append(FirstLine(psrc), "\n")
    /\ ppc = "read" => /\ Len(pout) <= Len(FirstLine(psrc))
                       /\ pout = SubSeq(FirstLine(psrc), 1, Len(pout))

\* C8 witness: a first line longer than one buffer, with bytes after its
\* newline, copied over more than one read.
C8_Witness ==
    /\ ppc = "done"
    /\ Len(FirstLine(psrc)) > PassBufLen
    /\ Len(psrc) > FirstNewline(psrc)
    /\ Len(pout) = Len(FirstLine(psrc)) + 1

-----------------------------------------------------------------------------
(* SpecExact: match on the three phrases of handleoutput, byte by byte *)

\* compare1 (default), compare2 and compare3 of handleoutput
TrackedPhrases == <<PASSWORD_PROMPT, compare2, compare3>>

\* The bytes a stream is made of: those of the phrase, and one foreign byte.
StreamBytes(ref) == { ref[i] : i \in 1..Len(ref) } \cup {"#"}

\* Length of the longest prefix of ref that the stream ends with, after byte
\* c followed a stream that ended with the prefix of length t; stated
\* without the matcher.
TrueNext(ref, t, c) ==
    LET tail == Append(SubSeq(ref, 1, t), c)
        fits == { k \in 0..Min(Len(ref), Len(tail)) :
                    \A j \in 1..k : ref[j] = tail[Len(tail) - k + j] }
    IN CHOOSE k \in fits : \A m \in fits : m <= k

ExactInit ==
    /\ xref \in { TrackedPhrases[i] : i \in 1..Len(TrackedPhrases) }
    /\ xstate = 0
    /\ xtrue = 0
    /\ xpos = 0
    /\ xfirst = 0
    /\ xdone = 0
    /\ MatchIdle
    /\ PassIdle
    /\ HandleIdle
    /\ LegacyIdle
    /\ ProgIdle

\* One call state=match(reference, buffer, 1, state) on the next byte of the
\* stream, up to the end of the first occurrence of the phrase.
ExactFeed ==
    /\ xfirst = 0
    /\ xpos < MaxStream
    /\ \E c \in StreamBytes(xref) :
         LET s == match(xref, <<c>>, 1, xstate)
             t == TrueNext(xref, xtrue, c)
         IN /\ xstate' = s
            /\ xtrue' = t
            /\ xpos' = xpos + 1
            /\ xdone' = IF xdone = 0 /\ s = Len(xref) THEN xpos + 1 ELSE xdone
            /\ xfirst' = IF t = Len(xref) THEN xpos + 1 ELSE 0
    /\ UNCHANGED xref
    /\ UNCHANGED <<matchVars, passVars, handleVars, legacyVars, progVars>>

ExactNext == ExactFeed

SpecExact == ExactInit /\ [][ExactNext]_vars

\* C12: for each of the three tracked phrases and every stream fed from
\* state 0, match has reached the complete state no later than the end of
\* the first occurrence of the phrase in the stream.
C12_ExactOnTrackedPhrases ==
    xfirst # 0 => (xdone # 0 /\ xdone <= xfirst)

\* C12, the part the code keeps: the rule is exact for the default prompt
\* and for the host-key-unknown phrase, and never ahead of the stream.
C12_ExactOnTwo ==
    /\ xstate <= xtrue
    /\ xref # compare3 => xstate = xtrue

-----------------------------------------------------------------------------
(* SpecHandle: handleoutput driven read by read on the real phrases *)

\* What one read may return: any single byte of the three phrases or a
\* foreign byte, and reads that hold whole phrases.
HandleChunks ==
    { <<c>> : c \in UNION { StreamBytes(TrackedPhrases[i]) : i \in 1..Len(TrackedPhrases) } }
    \cup { PASSWORD_PROMPT, compare2, compare3,
           compare2 \o compare3, compare3 \o compare2,
           PASSWORD_PROMPT \o compare2, compare3 \o PASSWORD_PROMPT }

\* What "numread=read(...); buffer[numread]='\0'" (lines 424-425) leaves for
\* the matchers: got is what read() returned, numread the value of the
\* variable afterwards and buffer the bytes below it. A read of n > 0 bytes
\* or of 0 bytes leaves numread = got. After a failed read (got = -1) the
\* store goes to buffer[-1], outside the array: it either hits nothing that
\* is used again (numread stays -1 and no byte is scanned) or the variable
\* numread itself, which then is positive and makes the matchers scan
\* whatever the uninitialised buffer holds.
HandleReads ==
    { [buffer |-> b, numread |-> Len(b), got |-> Len(b)] : b \in HandleChunks }
    \cup { [buffer |-> <<>>, numread |-> 0, got |-> 0],
           [buffer |-> <<>>, numread |-> -1, got |-> -1] }
    \cup { [buffer |-> g, numread |-> Len(g), got |-> -1] : g \in HandleChunks }

HandleInit ==
    /\ HandleIdle
    /\ MatchIdle
    /\ PassIdle
    /\ ExactIdle
    /\ LegacyIdle
    /\ ProgIdle

\* One call of handleoutput while the loop is Running (no outcome yet).
HandleRead ==
    /\ hret = 0
    /\ \E rd \in HandleReads :
         LET buffer == rd.buffer
             r == handleoutput(compare1_of(pwprompt), buffer, rd.numread,
                               state1, state2, state3, prevmatch)
         IN /\ hbuf' = buffer
            /\ hnum' = rd.got
            /\ hpre' = [state1 |-> state1, state2 |-> state2,
                        state3 |-> state3, prevmatch |-> prevmatch]
            /\ hret' = r.ret
            /\ state1' = r.state1
            /\ state2' = r.state2
            /\ state3' = r.state3
            /\ prevmatch' = r.prevmatch
            /\ ncomplete' = ncomplete + (IF r.complete THEN 1 ELSE 0)
            /\ npass' = npass + (IF r.wrote THEN 1 ELSE 0)
    /\ UNCHANGED <<pc, exitcode, childpid, forked, rfail, optVars, fdVars, childVars, loopVars>>
    /\ UNCHANGED <<ptyin, rpos, sigVars, stepVars>>
    /\ UNCHANGED <<matchVars, passVars, exactVars, legacyVars, hstream, hpos>>

HandleNext == HandleRead

SpecHandle == HandleInit /\ [][HandleNext]_vars

\* C21: in every reachable state, whatever the reads returned (bytes, no
\* byte, or a failure with a negative count), each of the three phrase
\* states of handleoutput is at least 0 and at most the length of its
\* phrase, so the phrase is indexed at its terminating byte at most.
C21_StatesWithinPhrase ==
    /\ state1 \in 0..Len(compare1_of(pwprompt))
    /\ state2 \in 0..Len(compare2)
    /\ state3 \in 0..Len(compare3)

\* C21 witness: a read failed while two phrases were partly matched, and
\* the call left the three states where they were.
C21_Witness ==
    /\ hnum = -1
    /\ hbuf = <<>>
    /\ state1 > 0
    /\ state2 > 0
    /\ state1 = hpre.state1
    /\ state2 = hpre.state2
    /\ state3 = hpre.state3

\* C21, the upper end: a phrase state stands at the terminating byte.
C21_AtTerminator ==
    /\ state2 = Len(compare2)
    /\ hret = RETURN_HOST_KEY_UNKNOWN

\* The last read, seen by each host-key matcher alone, completes its phrase.
BothHostKeyPhrases ==
    /\ match(compare2, hbuf, Len(hbuf), hpre.state2) = Len(compare2)
    /\ match(compare3, hbuf, Len(hbuf), hpre.state3) = Len(compare3)

\* C17: a read on which the prompt completes after the password was sent
\* (return 5) leaves state2 and state3 as they were; a read that completes
\* the host-key-unknown phrase (return 6) leaves state3 as it was; a read
\* that completes both host-key phrases never returns 7: it returns 6,
\* unless the prompt short-circuit of the same read returned 5 first.
C17_ShortCircuit ==
    /\ hret = RETURN_INCORRECT_PASSWORD =>
           /\ hpre.prevmatch = 1
           /\ state2 = hpre.state2
           /\ state3 = hpre.state3
    /\ hret = RETURN_HOST_KEY_UNKNOWN => state3 = hpre.state3
    /\ BothHostKeyPhrases =>
           /\ hret # RETURN_HOST_KEY_CHANGED
           /\ hret \in {RETURN_HOST_KEY_UNKNOWN, RETURN_INCORRECT_PASSWORD}
           /\ hret = RETURN_INCORRECT_PASSWORD => hpre.prevmatch = 1

\* C17 witness: one read completed both host-key phrases and returned 6
\* with the host-key-changed state untouched.
C17_Witness ==
    /\ BothHostKeyPhrases
    /\ hret = RETURN_HOST_KEY_UNKNOWN
    /\ state3 = hpre.state3
    /\ state3 < Len(compare3)

-----------------------------------------------------------------------------
(* SpecChunk: handleoutput over one output stream, cut into reads at *)
(* arbitrary places                                                  *)

\* What the child writes in a run: two of the tracked phrases in a row.
ChunkStreams ==
    { PASSWORD_PROMPT \o PASSWORD_PROMPT,
      PASSWORD_PROMPT \o compare2,
      compare2 \o PASSWORD_PROMPT,
      PASSWORD_PROMPT \o compare3,
      compare3 \o PASSWORD_PROMPT }

\* sizeof(buffer)-1, the most one read returns (line 424)
ReadMax == 255

ChunkInit ==
    /\ hbuf = <<>>
    /\ hpre = [state1 |-> 0, state2 |-> 0, state3 |-> 0, prevmatch |-> 0]
    /\ hret = 0
    /\ hnum = 0
    /\ hstream \in ChunkStreams
    /\ hpos = 0
    /\ MatchIdle
    /\ PassIdle
    /\ ExactIdle
    /\ LegacyIdle
    /\ ProgIdle

\* One call of handleoutput while the loop is Running: the read returns the
\* next numread bytes of the stream, any number from 1 to what is left.
ChunkRead ==
    /\ hret = 0
    /\ hpos < Len(hstream)
    /\ \E numread \in 1..Min(ReadMax, Len(hstream) - hpos) :
         LET buffer == SubSeq(hstream, hpos + 1, hpos + numread)
             r == handleoutput(compare1_of(pwprompt), buffer, numread,
                               state1, state2, state3, prevmatch)
         IN /\ hbuf' = buffer
            /\ hnum' = numread
            /\ hpos' = hpos + numread
            /\ hpre' = [state1 |-> state1, state2 |-> state2,
                        state3 |-> state3, prevmatch |-> prevmatch]
            /\ hret' = r.ret
            /\ state1' = r.state1
            /\ state2' = r.state2
            /\ state3' = r.state3
            /\ prevmatch' = r.prevmatch
            /\ ncomplete' = ncomplete + (IF r.complete THEN 1 ELSE 0)
            /\ npass' = npass + (IF r.wrote THEN 1 ELSE 0)
    /\ UNCHANGED <<pc, exitcode, childpid, forked, rfail, optVars, fdVars, childVars, loopVars>>
    /\ UNCHANGED <<ptyin, rpos, sigVars, stepVars>>
    /\ UNCHANGED <<matchVars, passVars, exactVars, legacyVars, hstream>>

ChunkNext == ChunkRead

SpecChunk == ChunkInit /\ [][ChunkNext]_vars

\* The run of handleoutput over stream[i..] read one byte per call, from
\* the statics and the count of deliveries in st, until an outcome.
RECURSIVE ByteByByte(_, _, _)
ByteByByte(stream, i, st) ==
    IF i > Len(stream) \/ st.ret # 0 THEN st
    ELSE LET r == handleoutput(compare1_of(pwprompt), <<stream[i]>>, 1,
                               st.state1, st.state2, st.state3, st.prevmatch)
         IN ByteByByte(stream, i + 1,
                       [state1 |-> r.state1, state2 |-> r.state2,
                        state3 |-> r.state3, prevmatch |-> r.prevmatch,
                        npass |-> st.npass + (IF r.wrote THEN 1 ELSE 0),
                        ret |-> r.ret])

\* The deliveries and the outcome of the one-byte-per-read run over the
\* bytes read so far.
OfByteByByte ==
    LET st == ByteByByte(SubSeq(hstream, 1, hpos), 1,
                         [state1 |-> 0, state2 |-> 0, state3 |-> 0,
                          prevmatch |-> 0, npass |-> 0, ret |-> 0])
    IN <<st.npass, st.ret>>

\* C22: however the stream is cut into reads, the run has delivered the
\* password as often, and has produced the same outcome code, as the run
\* that reads the same bytes one per read.
C22_ChunkingIndependent == <<npass, hret>> = OfByteByByte

\* C22, the part the code keeps: reads that each end no later than the
\* first phrase of the stream completes agree with the one-byte run.
C22_AgreeingRun ==
    /\ hpos = Len(hstream)
    /\ hnum < Len(hstream)
    /\ <<npass, hret>> = OfByteByByte
    /\ hret # 0

-----------------------------------------------------------------------------
(* parse_options and main: main.c 103-210 *)

\* What the environment offers the program.
OptChars == {"f", "d", "p", "P", "v", "e", "h", "V", "?"}

PromptArgs == { <<>> }

PasswordArgs == { <<"p", "w">> }

\* VIRGIN_PWTYPE: the error after the check, lines 112-114
VIRGIN_PWTYPE(type, err) ==
    IF type # "PWT_STDIN" THEN RETURN_CONFLICTING_ARGUMENTS ELSE err

\* return of parse_options, lines 176-179
parse_options_return(err, optind) == IF err >= 0 THEN -(err + 1) ELSE optind

Init ==
    /\ pc = "getopt"
    /\ sshpassEnv \in {NULL} \cup {Ptr(a) : a \in PasswordArgs}
    /\ nsrc = 0
    /\ error = -1
    /\ pwtype = "PWT_STDIN"
    /\ pwprompt = NULL
    /\ password = NULL
    /\ exitcode = -1
    /\ masterpt = "none"
    /\ slavept = "none"
    /\ nclose = [master |-> 0, slave |-> 0]
    /\ childpid = 0
    /\ forked = FALSE
    /\ looped = FALSE
    /\ rfail = "none"
    /\ child = "none"
    /\ cfail = "none"
    /\ cstatus = <<"none", 0>>
    /\ reaped = FALSE
    /\ sigchld = FALSE
    /\ script = 0
    /\ wfrag = 0
    /\ rpos = 0
    /\ state1 = 0
    /\ state2 = 0
    /\ state3 = 0
    /\ prevmatch = 0
    /\ terminate = 0
    /\ status = <<"exited", 0>>
    /\ wait_id = 0
    /\ ptyin = <<>>
    /\ npass = 0
    /\ ncomplete = 0
    /\ sigmask = {}
    /\ sigpend = {}
    /\ term = 0
    /\ kills = <<>>
    /\ hruns = <<>>
    /\ owed = {}
    /\ nsig = 0
    /\ staleop = FALSE
    /\ lret = 0
    /\ wq = <<>>
    /\ pwcalls = <<>>
    /\ MatchIdle
    /\ PassIdle
    /\ ExactIdle
    /\ LegacyIdle
    /\ HandleIdle

restOfProgram == <<masterpt, slavept, nclose, childpid, forked, rfail, childVars, autoVars, loopVars>>

\* One turn of the while loop: getopt returned a password-source option.
GetOptSource ==
    /\ pc = "getopt"
    /\ error = -1
    /\ \E opt \in {"f", "d", "p", "e"} :
         LET err1 == VIRGIN_PWTYPE(pwtype, error)
         IN /\ pwtype' = CASE opt = "f" -> "PWT_FILE"
                           [] opt = "d" -> "PWT_FD"
                           [] OTHER -> "PWT_PASS"
            /\ \/ /\ opt \in {"f", "d"}
                  /\ UNCHANGED password
                  /\ error' = err1
               \/ /\ opt = "p"
                  /\ password' \in {Ptr(a) : a \in PasswordArgs}
                  /\ error' = err1
               \/ /\ opt = "e"
                  /\ password' = sshpassEnv
                  /\ error' = IF sshpassEnv = NULL
                              THEN RETURN_INVALID_ARGUMENTS ELSE err1
    /\ nsrc' = nsrc + 1
    /\ UNCHANGED <<pc, sshpassEnv, pwprompt, exitcode, restOfProgram>>
    /\ UNCHANGED <<sideVars, sigVars, stepVars>>

\* One turn of the while loop on -P, -v, -h or an unknown option.
\* args.verbose only drives diagnostics on stderr and is not kept, nor is
\* optind, which getopt owns.
GetOptOther ==
    /\ pc = "getopt"
    /\ error = -1
    /\ \E opt \in {"P", "v", "h", "?"} :
         /\ pwprompt' \in IF opt = "P" THEN {Ptr(a) : a \in PromptArgs} ELSE {pwprompt}
         /\ error' = CASE opt = "?" -> RETURN_INVALID_ARGUMENTS
                       [] opt = "h" -> RETURN_NOERROR
                       [] OTHER -> error
    /\ UNCHANGED <<pc, sshpassEnv, nsrc, pwtype, password, exitcode, restOfProgram>>
    /\ UNCHANGED <<sideVars, sigVars, stepVars>>

\* -V prints the version and calls exit(0).
GetOptVersion ==
    /\ pc = "getopt"
    /\ error = -1
    /\ pc' = "exit"
    /\ exitcode' = 0
    /\ UNCHANGED <<sshpassEnv, nsrc, error, pwtype, pwprompt, password, restOfProgram>>
    /\ UNCHANGED <<sideVars, sigVars, stepVars>>

\* The while condition fails: getopt returned -1, or error is set.
\* Then main, up to the call of runprogram.
Main ==
    /\ pc = "getopt"
    /\ \E optind \in {1, 2}, hasCommand \in BOOLEAN :
         LET opt_offset == parse_options_return(error, optind)
         IN IF opt_offset < 0
            THEN pc' = "exit" /\ exitcode' = -(opt_offset + 1)
            ELSE IF ~hasCommand
                 THEN pc' = "exit" /\ exitcode' = 0
                 ELSE pc' = "openpt" /\ exitcode' = exitcode
    /\ UNCHANGED <<optVars, restOfProgram>>
    /\ UNCHANGED <<sideVars, sigVars, stepVars>>

-----------------------------------------------------------------------------
(* runprogram up to the loop: main.c 219-350 *)

\* masterpt=posix_openpt(O_RDWR)
OpenPt ==
    /\ pc = "openpt"
    /\ \E rc \in {-1, 3} :
         /\ rfail' = IF rc = -1 THEN "openpt" ELSE rfail
         /\ masterpt' = IF rc = -1 THEN masterpt ELSE "open"
         /\ IF openpt_failed(rc)
            THEN pc' = "exit" /\ exitcode' = RETURN_RUNTIME_ERROR
            ELSE pc' = "grantpt" /\ UNCHANGED exitcode
    /\ UNCHANGED <<optVars, slavept, nclose, childpid, forked, childVars, autoVars, loopVars>>
    /\ UNCHANGED <<sideVars, sigVars, stepVars>>

GrantPt ==
    /\ pc = "grantpt"
    /\ \E rc \in {-1, 0} :
         /\ rfail' = IF rc = -1 THEN "grantpt" ELSE rfail
         /\ IF grantpt_failed(rc)
            THEN pc' = "exit" /\ exitcode' = RETURN_RUNTIME_ERROR
            ELSE pc' = "unlockpt" /\ UNCHANGED exitcode
    /\ UNCHANGED <<optVars, fdVars, childpid, forked, childVars, autoVars, loopVars>>
    /\ UNCHANGED <<sideVars, sigVars, stepVars>>

UnlockPt ==
    /\ pc = "unlockpt"
    /\ \E rc \in {-1, 0} :
         /\ rfail' = IF rc = -1 THEN "unlockpt" ELSE rfail
         /\ IF unlockpt_failed(rc)
            THEN pc' = "exit" /\ exitcode' = RETURN_RUNTIME_ERROR
            ELSE pc' = "fork" /\ UNCHANGED exitcode
    /\ UNCHANGED <<optVars, fdVars, childpid, forked, childVars, autoVars, loopVars>>
    /\ UNCHANGED <<sideVars, sigVars, stepVars>>

\* sigprocmask and the signal calls, then childpid=fork(); the parent then
\* opens its own slave end and enters the loop.
Fork ==
    /\ pc = "fork"
    /\ forked' = TRUE
    /\ \E pid \in {-1, 1} :
         /\ childpid' = pid
         /\ rfail' = IF pid = -1 THEN "fork" ELSE rfail
         /\ child' = IF pid = -1 THEN child ELSE "setup"
         /\ IF fork_failed(pid)
            THEN /\ pc' = "exit"
                 /\ exitcode' = RETURN_RUNTIME_ERROR
                 /\ UNCHANGED <<slavept, looped>>
            ELSE /\ pc' = "pselect"
                 /\ slavept' = parent_slave
                 /\ looped' = TRUE
                 /\ UNCHANGED exitcode
    /\ sigmask' = sigmask_run
    /\ UNCHANGED <<optVars, masterpt, nclose, cfail, cstatus, sigchld, script, wfrag>>
    /\ UNCHANGED <<autoVars, terminate, status, wait_id, reaped>>
    /\ UNCHANGED <<sigpend, term, kills, hruns, owed, nsig, staleop>>
    /\ UNCHANGED <<sideVars, stepVars>>

-----------------------------------------------------------------------------
(* The child: main.c 305-343, and the target it becomes *)

\* What a target may print, as the pieces it writes one write(2) at a time.
Scripts ==
    << << PASSWORD_PROMPT, PASSWORD_PROMPT >>,
       << compare2, PASSWORD_PROMPT >>,
       << compare3 >> >>

RECURSIVE Flatten(_, _)
Flatten(frags, n) == IF n = 0 THEN <<>> ELSE Flatten(frags, n - 1) \o frags[n]

\* The whole output of each script, and the length written after each piece.
Streams == [i \in 1..Len(Scripts) |-> Flatten(Scripts[i], Len(Scripts[i]))]

Cuts == [i \in 1..Len(Scripts) |->
           [n \in 0..Len(Scripts[i]) |-> Len(Flatten(Scripts[i], n))]]

TargetExitCodes == {0, 1}

\* Bytes the target has written to its terminal so far.
WrittenLen == IF script = 0 THEN 0 ELSE Cuts[script][wfrag]

\* What the controller has read so far.
Fed == IF script = 0 THEN <<>> ELSE SubSeq(Streams[script], 1, rpos)

ChildDies(st) ==
    /\ child' = "dead"
    /\ cstatus' = st
    /\ sigchld' = TRUE

\* setsid, open of the slave, ioctl(TIOCSCTTY): exit(RETURN_RUNTIME_ERROR) on failure.
ChildSetup ==
    /\ child = "setup"
    /\ \E rc \in {-1, 0} :
         IF rc = -1
         THEN ChildDies(child_exit_failure) /\ cfail' = "ctty"
         ELSE child' = "exec" /\ UNCHANGED <<cfail, cstatus, sigchld>>
    /\ UNCHANGED <<script, wfrag>>
    /\ UNCHANGED <<pc, exitcode, childpid, forked, rfail, optVars, fdVars, autoVars, loopVars>>
    /\ UNCHANGED <<sideVars, sigVars, stepVars>>

\* execvp: the target starts, or perror and exit(RETURN_RUNTIME_ERROR).
ChildExec ==
    /\ child = "exec"
    /\ \/ /\ ChildDies(child_exit_failure)
          /\ cfail' = "exec"
          /\ UNCHANGED script
       \/ /\ child' = "running"
          /\ script' \in 1..Len(Scripts)
          /\ UNCHANGED <<cfail, cstatus, sigchld>>
    /\ UNCHANGED wfrag
    /\ UNCHANGED <<pc, exitcode, childpid, forked, rfail, optVars, fdVars, autoVars, loopVars>>
    /\ UNCHANGED <<sideVars, sigVars, stepVars>>

\* The target writes the next piece of its output to its terminal.
TargetWrite ==
    /\ child = "running"
    /\ masterpt = "open"
    /\ wfrag < Len(Scripts[script])
    /\ wfrag' = wfrag + 1
    /\ UNCHANGED <<child, cfail, cstatus, sigchld, script>>
    /\ UNCHANGED <<pc, exitcode, childpid, forked, rfail, optVars, fdVars, autoVars, loopVars>>
    /\ UNCHANGED <<sideVars, sigVars, stepVars>>

\* The target exits on its own.
TargetExit ==
    /\ child = "running"
    /\ \E n \in TargetExitCodes : ChildDies(<<"exited", n>>)
    /\ UNCHANGED <<cfail, script, wfrag>>
    /\ UNCHANGED <<pc, exitcode, childpid, forked, rfail, optVars, fdVars, autoVars, loopVars>>
    /\ UNCHANGED <<sideVars, sigVars, stepVars>>

\* The child is killed by a signal it cannot catch (SIGKILL).
ChildKilled ==
    /\ child \in {"setup", "exec", "running"}
    /\ ChildDies(<<"signaled", 9>>)
    /\ UNCHANGED <<cfail, script, wfrag>>
    /\ UNCHANGED <<pc, exitcode, childpid, forked, rfail, optVars, fdVars, autoVars, loopVars>>
    /\ UNCHANGED <<sideVars, sigVars, stepVars>>

-----------------------------------------------------------------------------
(* The loop of runprogram: main.c 356-398 *)

SourceData == { <<"p", "\n", "q">> }

\* The bug of a loop that goes back to pselect whatever terminate holds.
AfterWaitSelectsAgain(tm, wid, st) ==
    /\ wait_id' = wid
    /\ status' = st
    /\ IF loop_again(wid, st)
       THEN /\ pc' = "pselect"
            /\ UNCHANGED exitcode
       ELSE /\ pc' = "exit"
            /\ exitcode' = runprogram_return(tm, st)

\* After waitpid returned wid and st: the loop condition, and the return.
AfterWait(tm, wid, st) ==
    /\ wait_id' = wid
    /\ status' = st
    /\ IF loop_again(wid, st)
       THEN /\ pc' = IF tm = 0 THEN "pselect" ELSE "wait"
            /\ UNCHANGED exitcode
       ELSE /\ pc' = "exit"
            /\ exitcode' = runprogram_return(tm, st)

\* wait_id=waitpid( childpid, &status, WNOHANG ), then the loop condition.
Poll(tm) ==
    IF child = "dead" /\ ~reaped
    THEN reaped' = TRUE /\ AfterWait(tm, childpid, cstatus)
    ELSE UNCHANGED reaped /\ AfterWait(tm, 0, status)

\* One iteration in which pselect returns with the master readable:
\* handleoutput reads and runs, a terminal outcome closes the descriptors
\* (lines 363-385), then the child is polled.
PSelectReadable ==
    /\ pc = "pselect"
    /\ masterpt = "open"
    /\ WrittenLen > rpos
    /\ \E numread \in 1..Min(HandleBufLen - 1, WrittenLen - rpos),
          data \in SourceData, opens \in BOOLEAN :
         LET buffer == SubSeq(Streams[script], rpos + 1, rpos + numread)
             r == handleoutput(compare1_of(pwprompt), buffer, numread,
                               state1, state2, state3, prevmatch)
         IN /\ rpos' = rpos + numread
            /\ state1' = r.state1
            /\ state2' = r.state2
            /\ state3' = r.state3
            /\ prevmatch' = r.prevmatch
            /\ ncomplete' = ncomplete + (IF r.complete THEN 1 ELSE 0)
            /\ npass' = npass + (IF r.wrote THEN 1 ELSE 0)
            /\ ptyin' = IF r.wrote
                        THEN ptyin \o write_pass(pwtype, password, data, opens)
                        ELSE ptyin
            /\ IF r.ret # 0
               THEN /\ terminate' = r.ret
                    /\ masterpt' = IF r.ret > 0 THEN "closed" ELSE masterpt
                    /\ slavept' = "closed"
                    /\ nclose' = [master |-> nclose.master + (IF r.ret > 0 THEN 1 ELSE 0),
                                  slave |-> nclose.slave + (IF r.ret > 0 THEN 2 ELSE 1)]
               ELSE UNCHANGED <<terminate, masterpt, slavept, nclose>>
            /\ Poll(r.ret)
    /\ UNCHANGED looped
    /\ UNCHANGED <<childpid, forked, rfail, optVars, childVars>>
    /\ UNCHANGED <<sideVars, sigVars, stepVars>>

\* One iteration in which pselect is interrupted by the pending SIGCHLD,
\* whose handler does nothing; then the child is polled.
PSelectSignal ==
    /\ pc = "pselect"
    /\ sigchld
    /\ sigchld' = FALSE
    /\ Poll(terminate)
    /\ UNCHANGED <<terminate, looped>>
    /\ UNCHANGED <<child, cfail, cstatus, script, wfrag>>
    /\ UNCHANGED <<childpid, forked, rfail, optVars, fdVars, autoVars>>
    /\ UNCHANGED <<sideVars, sigVars, stepVars>>

\* One iteration after a terminal outcome:
\* wait_id=waitpid( childpid, &status, 0 ) returns once the child is dead.
Wait ==
    /\ pc = "wait"
    /\ child = "dead"
    /\ ~reaped
    /\ reaped' = TRUE
    /\ AfterWait(terminate, childpid, cstatus)
    /\ UNCHANGED <<terminate, looped>>
    /\ UNCHANGED <<childpid, forked, rfail, optVars, fdVars, childVars, autoVars>>
    /\ UNCHANGED <<sideVars, sigVars, stepVars>>

Next ==
    \/ GetOptSource
    \/ GetOptOther
    \/ GetOptVersion
    \/ Main
    \/ OpenPt
    \/ GrantPt
    \/ UnlockPt
    \/ Fork
    \/ ChildSetup
    \/ ChildExec
    \/ TargetWrite
    \/ TargetExit
    \/ ChildKilled
    \/ PSelectReadable
    \/ PSelectSignal
    \/ Wait

Spec == Init /\ [][Next]_vars

-----------------------------------------------------------------------------
(* SpecSig: the loop of runprogram step by step, with signals: main.c 284-398 *)

\* The state at the sigprocmask call, with the pty allocated, of a run
\* started with one password source of a type in types ("sshpass -p pw cmd",
\* "sshpass -f file cmd").
LoopInit(types) ==
    /\ pc = "fork"
    /\ sshpassEnv = NULL
    /\ nsrc = 1
    /\ error = -1
    /\ pwtype \in types
    /\ pwprompt = NULL
    /\ password \in IF pwtype = "PWT_PASS"
                    THEN {Ptr(a) : a \in PasswordArgs} ELSE {NULL}
    /\ exitcode = -1
    /\ masterpt = "open"
    /\ slavept = "none"
    /\ nclose = [master |-> 0, slave |-> 0]
    /\ childpid = 0
    /\ forked = FALSE
    /\ looped = FALSE
    /\ rfail = "none"
    /\ child = "none"
    /\ cfail = "none"
    /\ cstatus = <<"none", 0>>
    /\ reaped = FALSE
    /\ sigchld = FALSE
    /\ script = 0
    /\ wfrag = 0
    /\ rpos = 0
    /\ state1 = 0
    /\ state2 = 0
    /\ state3 = 0
    /\ prevmatch = 0
    /\ terminate = 0
    /\ status = <<"exited", 0>>
    /\ wait_id = 0
    /\ ptyin = <<>>
    /\ npass = 0
    /\ ncomplete = 0
    /\ sigmask = {}
    /\ sigpend = {}
    /\ term = 0
    /\ kills = <<>>
    /\ hruns = <<>>
    /\ owed = {}
    /\ nsig = 0
    /\ staleop = FALSE
    /\ lret = 0
    /\ wq = <<>>
    /\ pwcalls = <<>>
    /\ MatchIdle
    /\ PassIdle
    /\ ExactIdle
    /\ LegacyIdle
    /\ HandleIdle

SigInit == LoopInit({"PWT_PASS"})

\* Signals pending for the controller, and those its mask holds back:
\* sigmask, replaced by sigmask_select for the duration of pselect.
Pending == sigpend \cup (IF sigchld THEN {"SIGCHLD"} ELSE {})

Blocked == IF pc = "inselect" THEN sigmask_select ELSE sigmask

Alive == child \in {"setup", "exec", "running"}

\* Whether open( args.pwsrc.filename, O_RDONLY ) of write_pass succeeds.
OpenResults == IF pwtype = "PWT_FILE" THEN BOOLEAN ELSE {TRUE}

\* if( !terminate ): the controller calls pselect, which installs sigmask_select.
EnterPSelect ==
    /\ pc = "pselect"
    /\ pc' = "inselect"
    /\ UNCHANGED <<exitcode, childpid, forked, rfail, optVars, fdVars, childVars, autoVars, loopVars>>
    /\ UNCHANGED <<sideVars, sigVars, stepVars>>

\* pselect returns with the master readable; sigmask is back in place.
PSelectReady ==
    /\ pc = "inselect"
    /\ masterpt = "open"
    /\ WrittenLen > rpos
    /\ pc' = "handle"
    /\ UNCHANGED <<exitcode, childpid, forked, rfail, optVars, fdVars, childVars, autoVars, loopVars>>
    /\ UNCHANGED <<sideVars, sigVars, stepVars>>

\* ret=handleoutput( masterpt ), up to the first reliable_write of write_pass
\* when it calls it: the read, the matchers, the statics.
CallHandleOutput ==
    /\ pc = "handle"
    /\ \E numread \in 1..Min(HandleBufLen - 1, WrittenLen - rpos),
          data \in SourceData, opens \in OpenResults :
         LET buffer == SubSeq(Streams[script], rpos + 1, rpos + numread)
             r == handleoutput(compare1_of(pwprompt), buffer, numread,
                               state1, state2, state3, prevmatch)
             calls == IF r.wrote THEN write_calls(pwtype, password, data, opens) ELSE <<>>
         IN /\ rpos' = rpos + numread
            /\ state1' = r.state1
            /\ state2' = r.state2
            /\ state3' = r.state3
            /\ prevmatch' = r.prevmatch
            /\ ncomplete' = ncomplete + (IF r.complete THEN 1 ELSE 0)
            /\ npass' = npass + (IF r.wrote THEN 1 ELSE 0)
            /\ lret' = r.ret
            /\ wq' = calls
            /\ pc' = IF calls # <<>> THEN "write" ELSE "poll"
    /\ UNCHANGED <<ptyin, pwcalls>>
    /\ UNCHANGED <<exitcode, childpid, forked, rfail, optVars, fdVars, childVars, loopVars>>
    /\ UNCHANGED <<sideVars, sigVars>>

\* One reliable_write of write_pass whose write() takes every byte.
ReliableWrite ==
    /\ pc = "write"
    /\ LET data == Head(wq)
       IN /\ ptyin' = ptyin \o reliable_write(data, Len(data))
          /\ pwcalls' = Append(pwcalls, <<data, Len(data)>>)
    /\ wq' = Tail(wq)
    /\ pc' = IF Tail(wq) # <<>> THEN "write" ELSE "poll"
    /\ UNCHANGED <<state1, state2, state3, prevmatch, npass, ncomplete, rpos, lret>>
    /\ UNCHANGED <<exitcode, childpid, forked, rfail, optVars, fdVars, childVars, loopVars>>
    /\ UNCHANGED <<sideVars, sigVars>>

\* One reliable_write of write_pass whose write() fails (-1) or is short.
ReliableWriteFails ==
    /\ pc = "write"
    /\ LET data == Head(wq)
       IN \E result \in {-1} \cup 0..(Len(data) - 1) :
            /\ ptyin' = ptyin \o reliable_write(data, result)
            /\ pwcalls' = Append(pwcalls, <<data, result>>)
    /\ wq' = Tail(wq)
    /\ pc' = IF Tail(wq) # <<>> THEN "write" ELSE "poll"
    /\ UNCHANGED <<state1, state2, state3, prevmatch, npass, ncomplete, rpos, lret>>
    /\ UNCHANGED <<exitcode, childpid, forked, rfail, optVars, fdVars, childVars, loopVars>>
    /\ UNCHANGED <<sideVars, sigVars>>

\* The rest of the iteration: on an outcome the closes and terminate=ret
\* (lines 368-383), then wait_id=waitpid( childpid, &status, WNOHANG ) and
\* the loop condition.
CloseAndPoll ==
    /\ pc = "poll"
    /\ IF lret # 0
       THEN /\ terminate' = lret
            /\ masterpt' = IF lret > 0 THEN "closed" ELSE masterpt
            /\ slavept' = "closed"
            /\ nclose' = [master |-> nclose.master + (IF lret > 0 THEN 1 ELSE 0),
                          slave |-> nclose.slave + (IF lret > 0 THEN 2 ELSE 1)]
       ELSE UNCHANGED <<terminate, masterpt, slavept, nclose>>
    /\ Poll(IF lret # 0 THEN lret ELSE terminate)
    /\ lret' = 0
    /\ UNCHANGED <<looped, wq, pwcalls>>
    /\ UNCHANGED <<childpid, forked, rfail, optVars, childVars, autoVars>>
    /\ UNCHANGED <<sideVars, sigVars>>

\* The kernel runs the handlers of every pending signal the mask lets
\* through. Inside pselect that makes pselect return -1 (EINTR) and the
\* controller goes on to waitpid; elsewhere the interrupted code resumes
\* (signal() installs restarting handlers, so a blocking waitpid resumes too).
DeliverSignals ==
    /\ pc \in {"pselect", "inselect", "handle", "write", "poll", "wait"}
    /\ Pending \ Blocked # {}
    /\ \E order \in Orders(Pending \ Blocked) :
         LET r == RunHandlers(order, 1, pc,
                              [ptyin |-> ptyin, kills |-> kills, term |-> term,
                               hruns |-> hruns, staleop |-> staleop])
         IN /\ ptyin' = r.ptyin
            /\ kills' = r.kills
            /\ term' = r.term
            /\ hruns' = r.hruns
            /\ staleop' = r.staleop
    /\ sigpend' = sigpend \cap Blocked
    /\ sigchld' = (sigchld /\ "SIGCHLD" \in Blocked)
    /\ owed' = owed \cap Blocked
    /\ pc' = IF pc = "inselect" THEN "poll" ELSE pc
    /\ UNCHANGED <<sigmask, nsig>>
    /\ UNCHANGED <<state1, state2, state3, prevmatch, npass, ncomplete, rpos>>
    /\ UNCHANGED <<child, cfail, cstatus, script, wfrag>>
    /\ UNCHANGED <<exitcode, childpid, forked, rfail, optVars, fdVars, loopVars>>
    /\ UNCHANGED <<sideVars, stepVars>>

\* The environment sends the controller a signal: one of those given
\* term_handler, or SIGWINCH with window_resize_handler installed.
SignalArrives ==
    /\ pc \in {"pselect", "inselect", "handle", "write", "poll", "wait"}
    /\ nsig < MaxSignals
    /\ \E sig \in TermSignals \cup {"SIGWINCH"} :
         /\ sig \notin sigpend
         /\ sigpend' = sigpend \cup {sig}
         /\ owed' = IF sig \in {"SIGHUP", "SIGTERM"} /\ Alive
                    THEN owed \cup {sig} ELSE owed
    /\ nsig' = nsig + 1
    /\ UNCHANGED <<sigmask, term, kills, hruns, staleop>>
    /\ UNCHANGED <<pc, exitcode, childpid, forked, rfail, optVars, fdVars, childVars, autoVars, loopVars>>
    /\ UNCHANGED <<sideVars, stepVars>>

\* The child, between its sigprocmask (line 309) and its close of masterpt
\* (line 326), gets a signal: it still has the parent's handlers and its
\* own childpid is 0.
ChildCatchesSignal ==
    /\ child = "setup"
    /\ nsig < MaxSignals
    /\ \E sig \in TermSignals :
         LET h == term_handler(sig, 0)
         IN /\ ptyin' = ptyin \o reliable_write(h.wrote, Len(h.wrote))
            /\ kills' = kills \o h.killed
            /\ hruns' = Append(hruns, <<sig, "child">>)
    /\ nsig' = nsig + 1
    /\ UNCHANGED <<sigmask, sigpend, term, owed, staleop>>
    /\ UNCHANGED <<state1, state2, state3, prevmatch, npass, ncomplete, rpos>>
    /\ UNCHANGED <<pc, exitcode, childpid, forked, rfail, optVars, fdVars, childVars, loopVars>>
    /\ UNCHANGED <<sideVars, stepVars>>

\* The steps of the controller.
ControllerStep ==
    \/ EnterPSelect
    \/ PSelectReady
    \/ CallHandleOutput
    \/ ReliableWrite
    \/ CloseAndPoll
    \/ DeliverSignals
    \/ Wait

SigNext ==
    \/ Fork
    \/ ChildSetup
    \/ ChildExec
    \/ TargetWrite
    \/ TargetExit
    \/ ChildKilled
    \/ ChildCatchesSignal
    \/ SignalArrives
    \/ EnterPSelect
    \/ PSelectReady
    \/ CallHandleOutput
    \/ ReliableWrite
    \/ CloseAndPoll
    \/ DeliverSignals
    \/ Wait

SpecSig == SigInit /\ [][SigNext]_vars

\* The controller is a process of its own: whenever it has a step to take,
\* it takes one. Nothing is assumed of the child or of the environment.
SpecSigFair == SpecSig /\ WF_vars(ControllerStep)

-----------------------------------------------------------------------------
(* SpecWrite: the same loop with failing writes and a password file that *)
(* may not open; no signal but SIGCHLD                                   *)

WriteInit == LoopInit({"PWT_FILE", "PWT_PASS"})

WriteNext ==
    \/ Fork
    \/ ChildSetup
    \/ ChildExec
    \/ TargetWrite
    \/ TargetExit
    \/ ChildKilled
    \/ EnterPSelect
    \/ PSelectReady
    \/ CallHandleOutput
    \/ ReliableWrite
    \/ ReliableWriteFails
    \/ CloseAndPoll
    \/ DeliverSignals
    \/ Wait

SpecWrite == WriteInit /\ [][WriteNext]_vars

\* The bytes a write() that returned result took from data.
Accepted(data, result) == SubSeq(data, 1, IF result > 0 THEN result ELSE 0)

RECURSIVE AcceptedOf(_)
AcceptedOf(n) ==
    IF n = 0 THEN <<>>
    ELSE AcceptedOf(n - 1) \o Accepted(pwcalls[n][1], pwcalls[n][2])

\* write_pass was called and could not open the password file: it returned
\* without a single reliable_write.
OpenFailed == npass = 1 /\ pc # "handle" /\ pwcalls = <<>> /\ wq = <<>>

\* A write() of write_pass failed or was short.
WriteFailed == \E i \in 1..Len(pwcalls) : pwcalls[i][2] # Len(pwcalls[i][1])

\* The output read so far holds neither host-key phrase.
NoHostKeyPhrase == ~Contains(Fed, compare2) /\ ~Contains(Fed, compare3)

\* C19: every reliable_write makes one write() and the pty holds exactly
\* the bytes those calls took (nothing is sent again); after a failed or
\* short write, or a password file that did not open, the delivery still
\* counts as the one reply (prevmatch is set, write_pass is not called
\* again), handleoutput returned 0 for that read and the loop is Running
\* (output with a host-key phrase aside, which has its own outcome),
\* and the next completion of the prompt yields 5.
C19_DeliveryFailureNotFatal ==
    /\ ptyin = AcceptedOf(Len(pwcalls))
    /\ npass <= 1
    /\ npass = 1 =>
           [i \in 1..(Len(pwcalls) + Len(wq)) |->
               IF i <= Len(pwcalls) THEN pwcalls[i][1] ELSE wq[i - Len(pwcalls)]]
           \in { write_calls(pwtype, password, data, opens) :
                    data \in SourceData, opens \in OpenResults }
    /\ (OpenFailed \/ WriteFailed) =>
           /\ prevmatch = 1
           /\ (ncomplete = 1 /\ NoHostKeyPhrase) => (lret = 0 /\ terminate = 0)
           /\ ncomplete >= 2 =>
                  (lret = RETURN_INCORRECT_PASSWORD \/ terminate = RETURN_INCORRECT_PASSWORD)
           /\ terminate \in {0, RETURN_INCORRECT_PASSWORD, RETURN_HOST_KEY_UNKNOWN,
                             RETURN_HOST_KEY_CHANGED}

\* C19 witness: the write of the password was short, the prompt came again
\* and the outcome is 5.
C19_Witness ==
    /\ pwtype = "PWT_PASS"
    /\ Len(pwcalls) = 2
    /\ pwcalls[1][2] = 1
    /\ Len(pwcalls[1][1]) = 2
    /\ ncomplete = 2
    /\ terminate = RETURN_INCORRECT_PASSWORD

-----------------------------------------------------------------------------
(* SpecLegacy: runprogram and handleoutput of the earlier program, *)
(* src/sshpass/main.c 143-250                                      *)

\* static const char compare[]="Password: "
legacy_compare == <<"P", "a", "s", "s", "w", "o", "r", "d", ":", " ">>

\* sizeof(buffer) of handleoutput
LegacyBufLen == 40

\* What the target may print, as the pieces it writes one write(2) at a time.
LegacyScript == << legacy_compare, legacy_compare >>

LegacyStream == Flatten(LegacyScript, Len(LegacyScript))

\* Bytes the target has written to its terminal so far.
LegacyWritten == Len(Flatten(LegacyScript, legfrag))

\* "int status;" has no initialiser: until waitpid stores a status the
\* variable holds whatever was on the stack, which the W* macros may read
\* as an exit, as a death from a signal or as neither.
UninitStatus == { <<"exited", 0>>, <<"signaled", 9>>, <<"stopped", 19>> }

\* match of src/sshpass/main.c, the same loop as in trunk
legacy_match(reference, buffer, bufsize, state) ==
    matchLoop(reference, buffer, bufsize, state, 0)

\* the do-while condition: while( !WIFEXITED( status ) )
legacy_loop_again(st) == ~WIFEXITED(st)

\* The state at the fork of a run started as "sshpass -p pw cmd", with the
\* pty allocated.
LegacyInit ==
    /\ legpc = "fork"
    /\ legpid = 0
    /\ legchild = "none"
    /\ legcstatus = <<"none", 0>>
    /\ legreaped = FALSE
    /\ legstatus \in UninitStatus
    /\ legfrag = 0
    /\ legrpos = 0
    /\ legstate = 0
    /\ legptyin = <<>>
    /\ MatchIdle
    /\ PassIdle
    /\ ExactIdle
    /\ HandleIdle
    /\ ProgIdle

\* int childpid=fork(): the parent enters the loop, or returns 0 at once
\* when fork failed.
LegacyFork ==
    /\ legpc = "fork"
    /\ \E pid \in {-1, 1} :
         /\ legpid' = pid
         /\ legpc' = IF pid > 0 THEN "select" ELSE "done"
         /\ legchild' = IF pid > 0 THEN "running" ELSE legchild
    /\ UNCHANGED <<legcstatus, legreaped, legstatus, legfrag, legrpos, legstate, legptyin>>
    /\ UNCHANGED <<matchVars, passVars, exactVars, handleVars, progVars>>

\* The child, or the target it has become, writes to its terminal.
LegacyChildWrite ==
    /\ legchild = "running"
    /\ legfrag < Len(LegacyScript)
    /\ legfrag' = legfrag + 1
    /\ UNCHANGED <<legpc, legpid, legchild, legcstatus, legreaped, legstatus, legrpos,
                   legstate, legptyin>>
    /\ UNCHANGED <<matchVars, passVars, exactVars, handleVars, progVars>>

\* The child ends by exit (exit(errno) after a failed execvp, or the
\* target's own exit).
LegacyChildExit ==
    /\ legchild = "running"
    /\ legchild' = "dead"
    /\ \E code \in TargetExitCodes : legcstatus' = <<"exited", code>>
    /\ UNCHANGED <<legpc, legpid, legreaped, legstatus, legfrag, legrpos, legstate, legptyin>>
    /\ UNCHANGED <<matchVars, passVars, exactVars, handleVars, progVars>>

\* The child is killed by a signal.
LegacyChildKilled ==
    /\ legchild = "running"
    /\ legchild' = "dead"
    /\ legcstatus' = <<"signaled", 9>>
    /\ UNCHANGED <<legpc, legpid, legreaped, legstatus, legfrag, legrpos, legstate, legptyin>>
    /\ UNCHANGED <<matchVars, passVars, exactVars, handleVars, progVars>>

\* select( masterpt+1, &readfd, NULL, NULL, NULL ) returns with the master
\* readable: output is waiting, or the child is dead and the slave side
\* has no holder left (a read then fails). No handler is installed, so no
\* signal interrupts the call.
LegacySelect ==
    /\ legpc = "select"
    /\ LegacyWritten > legrpos \/ legchild = "dead"
    /\ legpc' = "handle"
    /\ UNCHANGED <<legpid, legchild, legcstatus, legreaped, legstatus, legfrag, legrpos,
                   legstate, legptyin>>
    /\ UNCHANGED <<matchVars, passVars, exactVars, handleVars, progVars>>

\* handleoutput( masterpt ): one read, match, and write_pass (PWT_PASS)
\* whenever the prompt is complete.
LegacyHandleOutput ==
    /\ legpc = "handle"
    /\ \E numread \in IF LegacyWritten > legrpos
                       THEN 1..Min(LegacyBufLen, LegacyWritten - legrpos)
                       ELSE {-1},
          pass \in PasswordArgs :
         LET buffer == IF numread > 0
                       THEN SubSeq(LegacyStream, legrpos + 1, legrpos + numread)
                       ELSE <<>>
             m == legacy_match(legacy_compare, buffer, numread, legstate)
         IN /\ legrpos' = legrpos + (IF numread > 0 THEN numread ELSE 0)
            /\ IF m = Len(legacy_compare)
               THEN /\ legptyin' = legptyin \o pass \o <<"\n">>
                    /\ legstate' = 0
               ELSE /\ legstate' = m
                    /\ UNCHANGED legptyin
    /\ legpc' = "waitpid"
    /\ UNCHANGED <<legpid, legchild, legcstatus, legreaped, legstatus, legfrag>>
    /\ UNCHANGED <<matchVars, passVars, exactVars, handleVars, progVars>>

\* waitpid( childpid, &status, WNOHANG ), which stores a status only when
\* it collects the child, then the loop condition.
LegacyWaitpid ==
    /\ legpc = "waitpid"
    /\ IF legchild = "dead" /\ ~legreaped
       THEN /\ legreaped' = TRUE
            /\ legstatus' = legcstatus
       ELSE UNCHANGED <<legreaped, legstatus>>
    /\ legpc' = IF legacy_loop_again(legstatus') THEN "select" ELSE "done"
    /\ UNCHANGED <<legpid, legchild, legcstatus, legfrag, legrpos, legstate, legptyin>>
    /\ UNCHANGED <<matchVars, passVars, exactVars, handleVars, progVars>>

\* The steps of the parent process.
LegacyControllerStep ==
    \/ LegacyFork
    \/ LegacySelect
    \/ LegacyHandleOutput
    \/ LegacyWaitpid

LegacyNext ==
    \/ LegacyFork
    \/ LegacyChildWrite
    \/ LegacyChildExit
    \/ LegacyChildKilled
    \/ LegacySelect
    \/ LegacyHandleOutput
    \/ LegacyWaitpid

SpecLegacy == LegacyInit /\ [][LegacyNext]_vars

\* The parent is a running process: a step it can take is taken.
SpecLegacyFair == SpecLegacy /\ WF_vars(LegacyControllerStep)

\* C25: in the earlier program, once the child has terminated, by exit or
\* by a signal, the loop reaches Done (runprogram returns).
C25_LegacyLoopEnds == (legchild = "dead") ~> (legpc = "done")

\* C25, the part the code keeps: a child that ended by exit ends the loop.
C25_LegacyExitEndsLoop ==
    (legchild = "dead" /\ WIFEXITED(legcstatus)) ~> (legpc = "done")

\* C25 in one step: when the status of a child killed by a signal has been
\* collected, the parent is still in the loop.
C25_LegacyCollectedIsDone ==
    (legreaped /\ legpc # "waitpid") => legpc = "done"

-----------------------------------------------------------------------------
(* Properties of the loop with signals (SpecSig, SpecSigFair) *)

\* The handler of signal sig has run at position where.
Ran(sig, where) == \E i \in 1..Len(hruns) : hruns[i] = <<sig, where>>

\* C11: whenever the child is dead (it exited or a signal killed it, at any
\* position of the controller), the controller eventually leaves the loop
\* and returns.
C11_ChildDeathEndsLoop == (child = "dead") ~> (pc = "exit")

\* C11 witness: the child died with the controller at or inside pselect and
\* with nothing to read, the SIGCHLD handler ran inside pselect, and the
\* controller has returned.
C11_Witness ==
    /\ pc = "exit"
    /\ reaped
    /\ terminate = 0
    /\ rpos = WrittenLen
    /\ Ran("SIGCHLD", "inselect")

\* The kill() calls the first n handler executions should have made: one
\* per SIGHUP or SIGTERM handled by the controller, whose childpid is the
\* child's; none for one handled in the child, whose childpid is 0.
RECURSIVE ForwardsOf(_)
ForwardsOf(n) ==
    IF n = 0 THEN <<>>
    ELSE ForwardsOf(n - 1) \o
         (IF hruns[n][1] \in {"SIGHUP", "SIGTERM"} /\ hruns[n][2] # "child"
          THEN << <<childpid, hruns[n][1]>> >> ELSE <<>>)

\* The control bytes the first n handler executions should have written.
RECURSIVE ControlsOf(_)
ControlsOf(n) ==
    IF n = 0 THEN <<>>
    ELSE ControlsOf(n - 1) \o
         (CASE hruns[n][1] = "SIGINT" -> <<ETX>>
            [] hruns[n][1] = "SIGTSTP" -> <<SUB>>
            [] OTHER -> <<>>)

IsControl(b) == b \in {ETX, SUB}

\* C13: term_handler sends the child the same signal for SIGHUP and SIGTERM
\* and only with childpid > 0, writing nothing; for SIGINT it writes the
\* one byte 0x03 and for SIGTSTP the one byte 0x1A to the pty master and
\* sends no signal; after any of the four, term is set.
C13_TermHandler ==
    /\ kills = ForwardsOf(Len(hruns))
    /\ SelectSeq(ptyin, IsControl) = ControlsOf(Len(hruns))
    /\ term = IF \E i \in 1..Len(hruns) :
                     hruns[i][1] \in TermSignals /\ hruns[i][2] # "child"
              THEN 1 ELSE 0

\* C13 witness: the controller handled SIGTERM inside pselect and sent it on.
C13_Witness ==
    /\ Ran("SIGTERM", "inselect")
    /\ childpid > 0
    /\ kills = << <<childpid, "SIGTERM">> >>
    /\ SelectSeq(ptyin, IsControl) = <<>>
    /\ term = 1

\* What a call of handleoutput or of pselect would change.
readVars == <<rpos, state1, state2, state3, prevmatch, ncomplete, npass>>

\* C14: an outcome returned by handleoutput is acted on before the iteration
\* ends (no pselect comes in between); once terminate is set both
\* descriptors are closed and, from then on, terminate keeps its value,
\* handleoutput and pselect are not called again, and the controller is
\* only ever in the blocking waitpid or past the loop.
C14_TerminatingIsFinal ==
    /\ [](lret # 0 => pc \in {"write", "poll"})
    /\ [](terminate # 0 =>
             /\ masterpt = "closed"
             /\ slavept = "closed"
             /\ pc \in {"wait", "exit"})
    /\ [][terminate # 0 =>
             /\ terminate' = terminate
             /\ UNCHANGED readVars
             /\ pc' \in {"wait", "exit"}]_vars

\* C14 witness: the second prompt gave outcome 5 and the controller sits in
\* the blocking waitpid with the child alive.
C14_Witness ==
    /\ terminate = RETURN_INCORRECT_PASSWORD
    /\ pc = "wait"
    /\ Alive
    /\ masterpt = "closed"
    /\ slavept = "closed"

\* C15: no descriptor of the session (pty master, parent-side slave) is
\* closed twice, and when runprogram returns after the loop each has been
\* closed exactly once.
C15_ClosedExactlyOnce ==
    /\ nclose.master <= 1
    /\ nclose.slave <= 1
    /\ (pc = "exit" /\ looped) =>
           /\ nclose.master = 1
           /\ nclose.slave = 1
           /\ masterpt = "closed"
           /\ slavept = "closed"

\* C15, the part the code keeps: the master is never closed twice, and
\* nothing is closed before an outcome.
C15_MasterAtMostOnce ==
    /\ nclose.master <= 1
    /\ terminate = 0 => (nclose.master = 0 /\ nclose.slave = 0)

\* C16: while the loop is Running after the fork (terminate is 0 and the
\* controller has not returned), the parent's slave descriptor is open and
\* has never been closed; so it is at every pselect and every read.
C16_SlaveOpenWhileRunning ==
    (looped /\ terminate = 0 /\ pc # "exit") =>
        /\ slavept = "open"
        /\ nclose.slave = 0

\* C16 witness: the controller is inside pselect after the password went
\* out, with the child alive and the slave end still open.
C16_Witness ==
    /\ pc = "inselect"
    /\ terminate = 0
    /\ npass = 1
    /\ Alive
    /\ slavept = "open"

\* The bytes the pty took from the write() calls of write_pass, in order.
RECURSIVE TakenOf(_)
TakenOf(n) ==
    IF n = 0 THEN <<>>
    ELSE TakenOf(n - 1) \o reliable_write(pwcalls[n][1], pwcalls[n][2])

\* C18: in the controller the handlers of SIGCHLD, SIGHUP, SIGTERM, SIGINT
\* and SIGTSTP run inside pselect only, never at handleoutput, write_pass
\* or waitpid; and the bytes of a password transmission lie next to each
\* other on the pty, with no control byte between them.
C18_HandlersOnlyInPSelect ==
    /\ \A i \in 1..Len(hruns) :
          (/\ hruns[i][1] \in {"SIGCHLD", "SIGHUP", "SIGTERM", "SIGINT", "SIGTSTP"}
           /\ hruns[i][2] # "child")
              => hruns[i][2] = "inselect"
    /\ Contains(ptyin, TakenOf(Len(pwcalls)))

\* C18 witness: SIGINT arrived while write_pass was between its two writes
\* and is still pending.
C18_Witness ==
    /\ pc = "write"
    /\ Len(pwcalls) = 1
    /\ "SIGINT" \in sigpend
    /\ SelectSeq(ptyin, IsControl) = <<>>

\* C24: term, which term_handler sets, changes nothing in the control state
\* of the loop. A step in which handlers run in the controller leaves terminate, the pending
\* return value of handleoutput and everything a read would change as they
\* were and leaves the controller where it was (pselect goes on to
\* waitpid), never at the end of the loop; with term set, the first
\* completion of the prompt still delivers the password; terminate is only
\* ever set to a non-zero value handleoutput returned, and the loop only
\* ends with the child's exit or signal-death status collected.
C24_TermFlagIsInert ==
    /\ [][(hruns' # hruns /\ hruns'[Len(hruns')][2] # "child") =>
             /\ terminate' = terminate
             /\ lret' = lret
             /\ UNCHANGED readVars
             /\ pc' = (IF pc = "inselect" THEN "poll" ELSE pc)
             /\ pc' # "exit"]_vars
    /\ []((term = 1 /\ ncomplete >= 1) => npass = 1)
    /\ [][terminate' # terminate => (lret # 0 /\ terminate' = lret)]_vars
    /\ [][(pc \notin {"fork", "exit"} /\ pc' = "exit") =>
             /\ reaped'
             /\ WIFEXITED(status') \/ WIFSIGNALED(status')]_vars

\* C24 witness: the interrupt signal was handled (its byte is the first on
\* the pty) before the prompt completed; the password went out after it
\* and the loop is still Running with term set.
C24_Witness ==
    /\ term = 1
    /\ Len(ptyin) > 1
    /\ ptyin[1] = ETX
    /\ npass = 1
    /\ terminate = 0
    /\ pc \in {"pselect", "inselect"}
    /\ Alive

\* C23: no read, write, ioctl or pselect is issued on masterpt after the
\* controller has closed it, whatever signal handler runs at whatever
\* point: no handler has used the closed descriptor, and the loop is at
\* pselect, read or write only while the descriptor is open.
C23_NoUseAfterClose ==
    /\ ~staleop
    /\ pc \in {"pselect", "inselect", "handle", "write"} => masterpt = "open"

\* C23, the part the code keeps: the loop itself and the handlers of the
\* blocked signals never use the closed descriptor.
C23_LoopAndBlockedHandlers ==
    /\ pc \in {"pselect", "inselect", "handle", "write"} => masterpt = "open"
    /\ staleop => \E i \in 1..Len(hruns) : hruns[i][1] = "SIGWINCH"

\* C20: a SIGHUP or SIGTERM that is pending for the controller while the
\* child is alive, in Running or in Terminating, is eventually handled (and
\* with it sent on to the child): it does not stay pending for as long as
\* the child lives.
C20_TermSignalEventuallyHandled ==
    \A sig \in {"SIGHUP", "SIGTERM"} :
        (sig \in sigpend /\ Alive) ~> (sig \notin sigpend \/ ~Alive)

\* C20 in a finite run: the controller never returns with the handler of
\* such a signal still to run.
C20_NoTermSignalLost ==
    pc = "exit" => owed = {}

\* C20, the part the code keeps: while the loop is Running and the
\* controller is inside pselect, no such signal is left waiting.
C20_HandledInPSelect ==
    \A i \in 1..Len(hruns) :
        (hruns[i][1] \in {"SIGHUP", "SIGTERM"} /\ hruns[i][2] = "inselect")
            => \E k \in 1..Len(kills) : kills[k] = <<childpid, hruns[i][1]>>

-----------------------------------------------------------------------------
(* Properties of the program (Spec) *)

\* The position in the stream at which the phrase first ends, -1 when the
\* stream does not hold it; stated without the matcher.
EndOfFirst(stream, phrase) ==
    LET ends == { k \in Len(phrase)..Len(stream) :
                    \A j \in 1..Len(phrase) : stream[k - Len(phrase) + j] = phrase[j] }
    IN IF ends = {} THEN -1
       ELSE CHOOSE k \in ends : \A m \in ends : k <= m

\* The host-key-unknown phrase has ended in the output read so far, and the
\* prompt phrase had not ended before it.
HostKeyFirst ==
    LET h == EndOfFirst(Fed, compare2)
        p == EndOfFirst(Fed, compare1_of(pwprompt))
    IN h >= 0 /\ (p = -1 \/ h < p)

\* C1: once the child is forked, runprogram returns the terminal outcome
\* (5, 6 or 7) if handleoutput produced one, however the child ended; else
\* the child's exit status if it exited; else 255 if a signal killed it.
C1_ExitCodeSynthesis ==
    (pc = "exit" /\ childpid > 0) =>
        /\ terminate \in {0, RETURN_INCORRECT_PASSWORD, RETURN_HOST_KEY_UNKNOWN,
                          RETURN_HOST_KEY_CHANGED}
        /\ terminate # 0 => exitcode = terminate
        /\ (terminate = 0 /\ cstatus[1] = "exited") => exitcode = cstatus[2]
        /\ (terminate = 0 /\ cstatus[1] = "signaled") => exitcode = 255
        /\ cstatus[1] \in {"exited", "signaled"}

\* C1 witness: a terminal outcome is returned although the child exited with
\* a status of its own.
C1_Witness ==
    /\ pc = "exit"
    /\ childpid > 0
    /\ terminate = RETURN_INCORRECT_PASSWORD
    /\ cstatus = <<"exited", 1>>
    /\ exitcode = RETURN_INCORRECT_PASSWORD

\* What one call of write_pass may write, given the arguments of the run.
Deliveries ==
    { write_pass(pwtype, password, data, opens) :
        data \in SourceData, opens \in BOOLEAN }

\* C2: write_pass is called at most once in a run; a read that completes the
\* prompt phrase after the delivery makes handleoutput return 5, and the
\* pty has received no more than the one delivery.
C2_DeliveredOnce ==
    /\ npass <= 1
    /\ npass = 0 => ptyin = <<>>
    /\ npass = 1 => ptyin \in Deliveries
    /\ ncomplete >= 1 => npass = 1
    /\ ncomplete >= 2 => terminate = RETURN_INCORRECT_PASSWORD

\* C2 witness: the prompt was completed a second time after the delivery.
C2_Witness ==
    /\ ncomplete = 2
    /\ npass = 1
    /\ ptyin # <<>>
    /\ terminate = RETURN_INCORRECT_PASSWORD

\* C3: when the host-key-unknown phrase ends in the child's output before any
\* prompt phrase has ended, the outcome is HostKeyUnknown (6) and nothing
\* has been written to the pty, however the output is split into reads.
C3_HostKeyUnknownNoPassword ==
    HostKeyFirst =>
        /\ terminate = RETURN_HOST_KEY_UNKNOWN
        /\ npass = 0
        /\ ptyin = <<>>

\* C3, the part the code keeps: the outcome is HostKeyUnknown.
C3_OutcomeOnly ==
    HostKeyFirst => terminate = RETURN_HOST_KEY_UNKNOWN

\* C4: a write of the secret to the pty comes only after a read that left
\* the prompt phrase state at the phrase length, and by then the output
\* read so far, in the order received, holds the prompt phrase.
C4_WriteOnlyAfterPrompt ==
    (npass > 0 \/ ptyin # <<>>) =>
        /\ ncomplete >= 1
        /\ Contains(Fed, compare1_of(pwprompt))

\* C4 witness: the secret was written after a prompt that arrived in pieces.
C4_Witness ==
    /\ npass = 1
    /\ ptyin # <<>>
    /\ terminate = 0
    /\ pwprompt = NULL
    /\ rpos = Len(PASSWORD_PROMPT)
    /\ state1 = 0
    /\ state2 = 0

\* C5: a failure of posix_openpt, grantpt or unlockpt returns 3 before fork
\* is called, a failed fork returns 3 too, and on none of these paths is
\* the loop entered or anything written to the pty.
C5_SetupFailureIsRuntimeError ==
    /\ rfail # "none" =>
           /\ pc = "exit"
           /\ exitcode = RETURN_RUNTIME_ERROR
           /\ ~looped
           /\ child = "none"
           /\ npass = 0
           /\ ptyin = <<>>
    /\ rfail \in {"openpt", "grantpt", "unlockpt"} => ~forked
    /\ rfail = "fork" => forked

\* C5 witness: grantpt failed after the master was allocated.
C5_Witness ==
    /\ rfail = "grantpt"
    /\ masterpt = "open"
    /\ exitcode = RETURN_RUNTIME_ERROR

\* C6: a child that cannot set its controlling terminal or cannot exec exits
\* with status 3, never 0; the controller has then seen no outcome and
\* returns 3 once it has reaped the child.
C6_ChildFailureIsRuntimeError ==
    cfail # "none" =>
        /\ cstatus = <<"exited", RETURN_RUNTIME_ERROR>>
        /\ terminate = 0
        /\ pc = "exit" => (reaped /\ exitcode = RETURN_RUNTIME_ERROR)

\* C6 witness: execvp failed and the controller has returned.
C6_Witness ==
    /\ cfail = "exec"
    /\ pc = "exit"
    /\ reaped
    /\ exitcode = RETURN_RUNTIME_ERROR

\* C7: once a second password-source option has been processed, main returns
\* 2 and runprogram is never called: no pty, no child.
C7_SecondSourceIsConflict ==
    nsrc >= 2 =>
        /\ pc \in {"getopt", "exit"}
        /\ pc = "exit" => exitcode = RETURN_CONFLICTING_ARGUMENTS
        /\ masterpt = "none"
        /\ ~forked
        /\ child = "none"

\* C7, the part the code keeps: runprogram is never called.
C7_NoRun ==
    nsrc >= 2 =>
        /\ pc \in {"getopt", "exit"}
        /\ pc = "exit" => exitcode \in {RETURN_CONFLICTING_ARGUMENTS, RETURN_INVALID_ARGUMENTS}
        /\ masterpt = "none"
        /\ ~forked
        /\ child = "none"

====
